---------------------------- MODULE Spec2Model ----------------------------
(***************************************************************************)
(* A model of linkedin-finder.py: the e-mail filter, the surname heuristic, *)
(* the query and link builders, the table writers and main().               *)
(*                                                                         *)
(* A Python str is a sequence of characters; a character is a one-element  *)
(* TLA+ string.  Characters outside ASCII are written by code point         *)
(* ("U+0421").  An optional value (None or a value) is a sequence of        *)
(* length 0 or 1.                                                           *)
(***************************************************************************)
EXTENDS Integers, Sequences, FiniteSets, TLC

(***************************************************************************)
(* Bounds of the model.                                                    *)
(***************************************************************************)
\* the longest input file, in lines
MaxLines == 4
\* the longest local-part enumerated for the surname heuristic
MaxLocalLen == 5
\* the longest --org argument enumerated
MaxOrgLen == 5
\* the longest raw line body enumerated for the filter
MaxBodyLen == 7

(***************************************************************************)
(* Characters.                                                             *)
(***************************************************************************)
Lower == {"a","b","c","d","e","f","g","h","i","j","k","l","m",
          "n","o","p","q","r","s","t","u","v","w","x","y","z"}
Upper == {"A","B","C","D","E","F","G","H","I","J","K","L","M",
          "N","O","P","Q","R","S","T","U","V","W","X","Y","Z"}
Digit == {"0","1","2","3","4","5","6","7","8","9"}
\* what str.strip() removes from both ends
Whitespace == {" ", "\t", "\n", "\r"}

\* the three classes of EMAIL_RE
LocalClass == Lower \cup Upper \cup Digit \cup {".", "_", "+", "-"}
DomainClass == Lower \cup Upper \cup Digit \cup {".", "-"}
TldClass == Lower \cup Upper

(***************************************************************************)
(* str helpers, as Python computes them.                                   *)
(***************************************************************************)
Contains(s, c) == \E i \in 1..Len(s) : s[i] = c

\* the least index of c in s (c occurs in s)
IndexOf(s, c) == CHOOSE i \in 1..Len(s) : s[i] = c /\ \A j \in 1..(i-1) : s[j] # c

RECURSIVE LStrip(_)
LStrip(s) == IF s # <<>> /\ Head(s) \in Whitespace THEN LStrip(Tail(s)) ELSE s

RECURSIVE RStrip(_)
RStrip(s) ==
    IF s # <<>> /\ s[Len(s)] \in Whitespace THEN RStrip(SubSeq(s, 1, Len(s) - 1)) ELSE s

\* str.strip()
Strip(s) == RStrip(LStrip(s))

\* str.split(sep) for a one-character sep: every occurrence cuts, empty pieces kept
RECURSIVE Split(_, _)
Split(s, sep) ==
    IF ~Contains(s, sep) THEN <<s>>
    ELSE LET i == IndexOf(s, sep)
         IN  <<SubSeq(s, 1, i - 1)>> \o Split(SubSeq(s, i + 1, Len(s)), sep)

\* str.split(sep, 1): at most one cut, at the first occurrence
Split1(s, sep) ==
    IF ~Contains(s, sep) THEN <<s>>
    ELSE LET i == IndexOf(s, sep)
         IN  <<SubSeq(s, 1, i - 1), SubSeq(s, i + 1, Len(s))>>

\* [p for p in parts if p]
RECURSIVE NonEmpty(_)
NonEmpty(parts) ==
    IF parts = <<>> THEN <<>>
    ELSE IF Head(parts) = <<>> THEN NonEmpty(Tail(parts))
    ELSE <<Head(parts)>> \o NonEmpty(Tail(parts))

\* sep.join(parts)
RECURSIVE Join(_, _)
Join(sep, parts) ==
    IF parts = <<>> THEN <<>>
    ELSE IF Len(parts) = 1 THEN parts[1]
    ELSE parts[1] \o sep \o Join(sep, Tail(parts))

(***************************************************************************)
(* EMAIL_RE = ^[A-Za-z0-9._+-]+@[A-Za-z0-9.-]+\.[A-Za-z]{2,}$               *)
(* matched by running its automaton over the line.  States: 0 start,       *)
(* 1 in the local-part, 2 after '@', 3 in the domain, 4 after the dot that *)
(* starts the last label, 5 after one letter of it, 6 after two or more.   *)
(***************************************************************************)
ReStep(q, c) ==
    CASE q = 0 -> IF c \in LocalClass THEN {1} ELSE {}
      [] q = 1 -> (IF c \in LocalClass THEN {1} ELSE {}) \cup (IF c = "@" THEN {2} ELSE {})
      [] q = 2 -> IF c \in DomainClass THEN {3} ELSE {}
      [] q = 3 -> (IF c \in DomainClass THEN {3} ELSE {}) \cup (IF c = "." THEN {4} ELSE {})
      [] q = 4 -> IF c \in TldClass THEN {5} ELSE {}
      [] q = 5 -> IF c \in TldClass THEN {6} ELSE {}
      [] q = 6 -> IF c \in TldClass THEN {6} ELSE {}

RECURSIVE ReRun(_, _)
ReRun(qs, s) ==
    IF s = <<>> THEN qs
    ELSE ReRun(UNION {ReStep(q, Head(s)) : q \in qs}, Tail(s))

\* EMAIL_RE.match(line): '$' also matches just before a final newline
EMAIL_RE_match(line) ==
    \/ 6 \in ReRun({0}, line)
    \/ /\ line # <<>>
       /\ line[Len(line)] = "\n"
       /\ 6 \in ReRun({0}, SubSeq(line, 1, Len(line) - 1))

(***************************************************************************)
(* iter_emails: what one pass of its loop decides for one raw line.        *)
(***************************************************************************)
\* line 31: the lines skipped before the pattern is tried
Skipped(line) == line = <<>> \/ Contains(line, " ") \/ ~Contains(line, "@")

\* a validation that was forgotten: every new non-empty line is yielded
AcceptsUnvalidated(line, seen) == line # <<>> /\ line \notin seen

\* a filter that forgets what it has yielded
AcceptsAgain(line, seen) == ~Skipped(line) /\ EMAIL_RE_match(line)

\* lines 31-33: the stripped line is yielded
Accepts(line, seen) == ~Skipped(line) /\ EMAIL_RE_match(line) /\ line \notin seen

(***************************************************************************)
(* extract_surname_hint                                                    *)
(***************************************************************************)
Separators == <<".", "-", "_">>

\* the loop of lines 39-45 over the separators still to try
RECURSIVE HintFrom(_, _)
HintFrom(local, seps) ==
    IF seps = <<>> THEN local
    ELSE LET sep == Head(seps)
             parts == NonEmpty(Split(local, sep))
         IN  IF Contains(local, sep) /\ Len(parts) >= 2
             THEN parts[Len(parts)]
             ELSE HintFrom(local, Tail(seps))

\* the same loop returning the first fragment instead of the last
RECURSIVE HintFirstFrom(_, _)
HintFirstFrom(local, seps) ==
    IF seps = <<>> THEN local
    ELSE LET sep == Head(seps)
             parts == NonEmpty(Split(local, sep))
         IN  IF Contains(local, sep) /\ Len(parts) >= 2
             THEN parts[1]
             ELSE HintFirstFrom(local, Tail(seps))

extract_surname_hint_first(local) == HintFirstFrom(local, Separators)

\* the same loop keeping the empty fragments of the split
RECURSIVE HintRawFrom(_, _)
HintRawFrom(local, seps) ==
    IF seps = <<>> THEN local
    ELSE LET sep == Head(seps)
             parts == Split(local, sep)
         IN  IF Contains(local, sep) /\ Len(parts) >= 2
             THEN parts[Len(parts)]
             ELSE HintRawFrom(local, Tail(seps))

extract_surname_hint_raw(local) == HintRawFrom(local, Separators)

\* the loop trying the hyphen before the dot
extract_surname_hint_hyphen_first(local) == HintFrom(local, <<"-", ".", "_">>)

extract_surname_hint(local) == HintFrom(local, Separators)

(***************************************************************************)
(* build_query                                                             *)
(***************************************************************************)
DQ == "\""

\* f'"{kw}"' if " " in kw else kw
QuoteKw(kw) == IF Contains(kw, " ") THEN <<DQ>> \o kw \o <<DQ>> ELSE kw

SitePrefix ==
    <<"s","i","t","e",":","l","i","n","k","e","d","i","n",".","c","o","m","/","i","n">>

\* every keyword quoted, whether or not it holds a space
build_query_quoting_all(surname, org_keywords) ==
    SitePrefix \o <<" ", DQ>> \o surname \o <<DQ, " ", "(">>
        \o Join(<<" ", "O", "R", " ">>,
                [i \in 1..Len(org_keywords) |-> <<DQ>> \o org_keywords[i] \o <<DQ>>])
        \o <<")">>

build_query(surname, org_keywords) ==
    LET org_block == Join(<<" ", "O", "R", " ">>,
                          [i \in 1..Len(org_keywords) |-> QuoteKw(org_keywords[i])])
    IN  SitePrefix \o <<" ", DQ>> \o surname \o <<DQ, " ", "(">> \o org_block \o <<")">>

(***************************************************************************)
(* build_search_links, with urllib.parse.quote_plus                        *)
(***************************************************************************)
\* the characters quote() never encodes
AlwaysSafe == Lower \cup Upper \cup Digit \cup {"_", ".", "-", "~"}

\* %XX of the UTF-8 bytes, for the characters the inputs of the model can hold
PercentEncoded ==
    [c \in {":", "/", DQ, "(", ")", "+", "@", "\t",
            "U+0421", "U+0430", "U+043C", "U+0440", "U+0443",
            "U+043A", "U+041A", "U+0437", "U+044B", "U+043D"} |->
        CASE c = ":" -> <<"%","3","A">>
          [] c = "/" -> <<"%","2","F">>
          [] c = DQ  -> <<"%","2","2">>
          [] c = "(" -> <<"%","2","8">>
          [] c = ")" -> <<"%","2","9">>
          [] c = "+" -> <<"%","2","B">>
          [] c = "@" -> <<"%","4","0">>
          [] c = "\t" -> <<"%","0","9">>
          [] c = "U+0421" -> <<"%","D","0","%","A","1">>
          [] c = "U+0430" -> <<"%","D","0","%","B","0">>
          [] c = "U+043C" -> <<"%","D","0","%","B","C">>
          [] c = "U+0440" -> <<"%","D","1","%","8","0">>
          [] c = "U+0443" -> <<"%","D","1","%","8","3">>
          [] c = "U+043A" -> <<"%","D","0","%","B","A">>
          [] c = "U+041A" -> <<"%","D","0","%","9","A">>
          [] c = "U+0437" -> <<"%","D","0","%","B","7">>
          [] c = "U+044B" -> <<"%","D","1","%","8","B">>
          [] c = "U+043D" -> <<"%","D","0","%","B","D">>]

RECURSIVE quote_plus(_)
quote_plus(s) ==
    IF s = <<>> THEN <<>>
    ELSE LET c == Head(s)
         IN  (IF c \in AlwaysSafe THEN <<c>>
              ELSE IF c = " " THEN <<"+">>
              ELSE PercentEncoded[c]) \o quote_plus(Tail(s))

GoogleBase ==
    <<"h","t","t","p","s",":","/","/","w","w","w",".","g","o","o","g","l","e",".","c","o","m",
      "/","s","e","a","r","c","h","?","q","=">>
BingBase ==
    <<"h","t","t","p","s",":","/","/","w","w","w",".","b","i","n","g",".","c","o","m",
      "/","s","e","a","r","c","h","?","q","=">>
YandexBase ==
    <<"h","t","t","p","s",":","/","/","y","a","n","d","e","x",".","c","o","m",
      "/","s","e","a","r","c","h","/","?","t","e","x","t","=">>

build_search_links(query) ==
    [Google |-> GoogleBase \o quote_plus(query),
     Bing   |-> BingBase \o quote_plus(query),
     Yandex |-> YandexBase \o quote_plus(query)]

(***************************************************************************)
(* write_csv and try_write_xlsx.  A written table is the sequence of its   *)
(* records, a record the sequence of its five field values.                *)
(***************************************************************************)
fieldnames ==
    << <<"e","m","a","i","l">>,
       <<"s","u","r","n","a","m","e","_","h","i","n","t">>,
       <<"G","o","o","g","l","e">>,
       <<"B","i","n","g">>,
       <<"Y","a","n","d","e","x">> >>

\* [r.get(k, "") for k in fieldnames]
FieldsOf(r) == <<r.email, r.surname_hint, r.Google, r.Bing, r.Yandex>>

\* line 62: the row written when there are no rows
BlankRow == [email |-> <<>>, surname_hint |-> <<>>, Google |-> <<>>, Bing |-> <<>>, Yandex |-> <<>>]

\* a writer that loses the last row
write_csv_short(rows) ==
    <<fieldnames>> \o [i \in 1..(Len(rows) - 1) |-> FieldsOf(rows[i])]

\* the records write_csv puts in the file, lines 60-68
write_csv(rows) ==
    LET rs == IF rows = <<>> THEN <<BlankRow>> ELSE rows
    IN  <<fieldnames>> \o [i \in 1..Len(rs) |-> FieldsOf(rs[i])]

\* the worksheet try_write_xlsx saves, lines 75-81
Worksheet(rows) == <<fieldnames>> \o [i \in 1..Len(rows) |-> FieldsOf(rows[i])]

(***************************************************************************)
(* main: the keyword list, lines 92-95                                     *)
(***************************************************************************)
DEFAULT_ORG_KEYWORDS ==
    << <<"s","k",".","k","z">>,
       <<"S","a","m","r","u","k","-","K","a","z","y","n","a">>,
       <<"U+0421","U+0430","U+043C","U+0440","U+0443","U+043A","-",
         "U+041A","U+0430","U+0437","U+044B","U+043D","U+0430">> >>

\* [kw.strip() for kw in org.split(";") if kw.strip()]
RECURSIVE StripAll(_)
StripAll(parts) ==
    IF parts = <<>> THEN <<>>
    ELSE IF Strip(Head(parts)) = <<>> THEN StripAll(Tail(parts))
    ELSE <<Strip(Head(parts))>> \o StripAll(Tail(parts))

\* an override that is taken even when it yields nothing
OrgKeywordsNoFallback(org) ==
    IF org # <<>> /\ org[1] # <<>> THEN StripAll(Split(org[1], ";")) ELSE DEFAULT_ORG_KEYWORDS

\* org is args.org: <<>> for None, <<s>> for the string s
OrgKeywordsFor(org) ==
    IF org # <<>> /\ org[1] # <<>>
    THEN LET kws == StripAll(Split(org[1], ";"))
         IN  IF kws # <<>> THEN kws ELSE DEFAULT_ORG_KEYWORDS
    ELSE DEFAULT_ORG_KEYWORDS

(***************************************************************************)
(* The state of one run of main().                                         *)
(***************************************************************************)
VARIABLES
    args,          \* the parsed command line: input, output, xlsx, org
    inputFile,     \* the lines of the input file, as iterating it gives them
    pc,            \* where main is
    raised,        \* the exception that ended the run, "none" while there is none
    org_keywords,
    pos,           \* how many lines iter_emails has consumed
    seen,          \* iter_emails' set
    emails,        \* what iter_emails has yielded so far
    rows,
    local,         \* the loop's locals, as the last pass left them
    surname,
    query,
    csvFile,       \* <<>> while there is no file, else <<its records>>
    xlsxFile,      \* the same for the workbook
    stdout         \* the lines printed

vars == <<args, inputFile, pc, raised, org_keywords, pos, seen, emails, rows,
          local, surname, query, csvFile, xlsxFile, stdout>>

\* one printed line: which message, and the path or number it carries
Msg(kind, path, n) == [kind |-> kind, path |-> path, n |-> n]

InitWith(a, f) ==
    /\ args = a
    /\ inputFile = f
    /\ pc = "start"
    /\ raised = "none"
    /\ org_keywords = <<>>
    /\ pos = 0
    /\ seen = {}
    /\ emails = <<>>
    /\ rows = <<>>
    /\ local = <<>>
    /\ surname = <<>>
    /\ query = <<>>
    /\ csvFile = <<>>
    /\ xlsxFile = <<>>
    /\ stdout = <<>>

Args(org, xlsx) ==
    [input |-> "emails.txt", output |-> "linkedin_searches.csv", xlsx |-> xlsx, org |-> org]

(***************************************************************************)
(* The steps of main().                                                    *)
(***************************************************************************)
\* lines 92-95
ResolveOrgKeywords ==
    /\ pc = "start"
    /\ org_keywords' = OrgKeywordsFor(args.org)
    /\ pc' = "open"
    /\ UNCHANGED <<args, inputFile, raised, pos, seen, emails, rows, local, surname,
                   query, csvFile, xlsxFile, stdout>>

\* line 98: open() returns the file
OpenInput ==
    /\ pc = "open"
    /\ pc' = "read"
    /\ UNCHANGED <<args, inputFile, raised, org_keywords, pos, seen, emails, rows, local,
                   surname, query, csvFile, xlsxFile, stdout>>

\* line 98: open() raises, nothing catches it
OpenInputFails ==
    /\ pc = "open"
    /\ pc' = "aborted"
    /\ raised' = "open_input"
    /\ UNCHANGED <<args, inputFile, org_keywords, pos, seen, emails, rows, local,
                   surname, query, csvFile, xlsxFile, stdout>>

\* lines 29-35: one pass of iter_emails' loop, driven by list() on line 99
IterEmailsLine ==
    /\ pc = "read"
    /\ pos < Len(inputFile)
    /\ LET line == Strip(inputFile[pos + 1])
       IN  IF Accepts(line, seen)
           THEN /\ seen' = seen \cup {line}
                /\ emails' = Append(emails, line)
           ELSE UNCHANGED <<seen, emails>>
    /\ pos' = pos + 1
    /\ UNCHANGED <<args, inputFile, pc, raised, org_keywords, rows, local, surname,
                   query, csvFile, xlsxFile, stdout>>

\* line 99: the file is exhausted, the list is complete
IterEmailsEnd ==
    /\ pc = "read"
    /\ pos = Len(inputFile)
    /\ pc' = "rows"
    /\ UNCHANGED <<args, inputFile, raised, org_keywords, pos, seen, emails, rows,
                   local, surname, query, csvFile, xlsxFile, stdout>>

\* line 107: the row of one address
RowOf(e, hint, links) ==
    [email |-> e, surname_hint |-> hint,
     Google |-> links.Google, Bing |-> links.Bing, Yandex |-> links.Yandex]

\* lines 102-108: one pass of the loop over emails
BuildRow ==
    /\ pc = "rows"
    /\ Len(rows) < Len(emails)
    /\ local' = Split1(emails[Len(rows) + 1], "@")[1]
    /\ surname' = extract_surname_hint(local')
    /\ query' = build_query(surname', org_keywords)
    /\ rows' = Append(rows, RowOf(emails[Len(rows) + 1], surname', build_search_links(query')))
    /\ UNCHANGED <<args, inputFile, pc, raised, org_keywords, pos, seen, emails,
                   csvFile, xlsxFile, stdout>>

\* line 110: write_csv writes the file
WriteCsv ==
    /\ pc = "rows"
    /\ Len(rows) = Len(emails)
    /\ csvFile' = <<write_csv(rows)>>
    /\ pc' = "xlsx"
    /\ UNCHANGED <<args, inputFile, raised, org_keywords, pos, seen, emails, rows,
                   local, surname, query, xlsxFile, stdout>>

\* line 64: open() of the output path raises, nothing catches it
WriteCsvFails ==
    /\ pc = "rows"
    /\ Len(rows) = Len(emails)
    /\ pc' = "aborted"
    /\ raised' = "open_csv"
    /\ UNCHANGED <<args, inputFile, org_keywords, pos, seen, emails, rows,
                   local, surname, query, csvFile, xlsxFile, stdout>>

\* if args.xlsx: a path was given and is not the empty string
XlsxRequested == args.xlsx # <<>> /\ args.xlsx[1] # ""

\* line 112: no spreadsheet asked for
SkipXlsx ==
    /\ pc = "xlsx"
    /\ ~XlsxRequested
    /\ pc' = "summary"
    /\ UNCHANGED <<args, inputFile, raised, org_keywords, pos, seen, emails, rows,
                   local, surname, query, csvFile, xlsxFile, stdout>>

\* an import outside any try: the ImportError ends the run
XlsxUnavailableAborts ==
    /\ pc = "xlsx"
    /\ XlsxRequested
    /\ pc' = "aborted"
    /\ raised' = "import"
    /\ UNCHANGED <<args, inputFile, org_keywords, pos, seen, emails, rows,
                   local, surname, query, csvFile, xlsxFile, stdout>>

\* lines 72-74 and 113-115: the import fails, try_write_xlsx returns False
XlsxUnavailable ==
    /\ pc = "xlsx"
    /\ XlsxRequested
    /\ stdout' = Append(stdout, Msg("xlsx_missing", "", 0))
    /\ pc' = "summary"
    /\ UNCHANGED <<args, inputFile, raised, org_keywords, pos, seen, emails, rows,
                   local, surname, query, csvFile, xlsxFile>>

\* lines 75-82 and 116-117: the workbook is saved
XlsxWritten ==
    /\ pc = "xlsx"
    /\ XlsxRequested
    /\ xlsxFile' = <<Worksheet(rows)>>
    /\ stdout' = Append(stdout, Msg("xlsx", args.xlsx[1], 0))
    /\ pc' = "summary"
    /\ UNCHANGED <<args, inputFile, raised, org_keywords, pos, seen, emails, rows,
                   local, surname, query, csvFile>>

\* line 81: wb.save raises, nothing catches it
XlsxSaveFails ==
    /\ pc = "xlsx"
    /\ XlsxRequested
    /\ pc' = "aborted"
    /\ raised' = "xlsx_save"
    /\ UNCHANGED <<args, inputFile, org_keywords, pos, seen, emails, rows,
                   local, surname, query, csvFile, xlsxFile, stdout>>

\* a summary that stops after the count
PrintSummaryCountOnly ==
    /\ pc = "summary"
    /\ stdout' = Append(stdout, Msg("count", "", Len(rows)))
    /\ pc' = "done"
    /\ UNCHANGED <<args, inputFile, raised, org_keywords, pos, seen, emails, rows,
                   local, surname, query, csvFile, xlsxFile>>

\* lines 119-120
PrintSummary ==
    /\ pc = "summary"
    /\ stdout' = stdout \o <<Msg("count", "", Len(rows)), Msg("csv", args.output, 0)>>
    /\ pc' = "done"
    /\ UNCHANGED <<args, inputFile, raised, org_keywords, pos, seen, emails, rows,
                   local, surname, query, csvFile, xlsxFile>>

\* main up to the end of the read, line 99
NextRead ==
    \/ ResolveOrgKeywords
    \/ OpenInput
    \/ OpenInputFails
    \/ IterEmailsLine
    \/ IterEmailsEnd

\* main up to the end of the loop over emails, line 108
NextRows == NextRead \/ BuildRow

Next ==
    \/ NextRows
    \/ WriteCsv
    \/ WriteCsvFails
    \/ SkipXlsx
    \/ XlsxUnavailable
    \/ XlsxWritten
    \/ XlsxSaveFails
    \/ PrintSummary

(***************************************************************************)
(* The inputs: each specification draws the command line and the input     *)
(* file from bounded sets.                                                 *)
(***************************************************************************)
\* every sequence over S of length at most n
SeqsUpTo(S, n) == UNION {[1..k -> S] : k \in 0..n}

\* --xlsx absent, given empty, given a path
XlsxArgs == {<<>>, <<"">>, <<"sk.xlsx">>}

\* lines of an input file, each with its newline
LineJohnDoe == <<"j","o","h","n",".","d","o","e","@","c","o","r","p",".","c","o","m","\n">>
LineBadEmail == <<"b","a","d"," ","e","m","a","i","l","@","x","\n">>
LineAB == <<"a","_","b","@","c","o","r","p",".","c","o","m","\n">>
LineABPadded == <<"\t","a","_","b","@","c","o","r","p",".","c","o","m"," ","\n">>
PipelineLines == {LineJohnDoe, LineBadEmail, LineAB, LineABPadded}

\* --org absent, and given as "a b; ;sk"
PipelineOrgs == {<<>>, <<<<"a"," ","b",";"," ",";","s","k">>>>}

\* all three inputs vary: what main does from start to end
Init ==
    \E f \in SeqsUpTo(PipelineLines, MaxLines), org \in PipelineOrgs, x \in XlsxArgs :
        InitWith(Args(org, x), f)

Spec == Init /\ [][Next]_vars

\* the filter's inputs: every one-line file whose line is short, and every short
\* file over a few lines that repeat, pad and vary the case of an address
FilterAlphabet == {"a", "1", "@", ".", " "}
FilterLines ==
    { <<"a","@","a",".","a","a","\n">>, <<" ","a","@","a",".","a","a","\t","\n">>, <<"A","@","a",".","a","a","\n">>,
      <<"b","@","a",".","a","a","\n">>, <<"a"," ","a","@","a",".","a","a","\n">>, <<"a","b",".","a","a","\n">> }
FilterFiles ==
    {<<b \o <<"\n">>>> : b \in SeqsUpTo(FilterAlphabet, MaxBodyLen)}
        \cup SeqsUpTo(FilterLines, MaxLines)

InitFilter == \E f \in FilterFiles : InitWith(Args(<<>>, <<>>), f)

SpecFilter == InitFilter /\ [][NextRead]_vars

\* the heuristic's inputs: every short local-part over two letters and the separators
LocalAlphabet == {"a", "b", ".", "-", "_"}
AtCorp == <<"@","c","o","r","p",".","c","o","m","\n">>

InitHint ==
    \E l \in SeqsUpTo(LocalAlphabet, MaxLocalLen) : InitWith(Args(<<>>, <<>>), <<l \o AtCorp>>)

SpecHint == InitHint /\ [][NextRows]_vars

\* the keyword list's inputs: --org absent, or any short string of letters, blanks and ';'
OrgAlphabet == {"a", "b", " ", ";"}

InitOrg ==
    \E org \in {<<>>} \cup {<<o>> : o \in SeqsUpTo(OrgAlphabet, MaxOrgLen)} :
        InitWith(Args(org, <<>>), <<LineJohnDoe, LineAB>>)

SpecOrg == InitOrg /\ [][NextRows]_vars

(***************************************************************************)
(* What the properties speak of, stated by position in the string and not  *)
(* by the scans above.                                                     *)
(***************************************************************************)
\* s without its surrounding whitespace: from its first to its last other character
Trimmed(s) ==
    LET solid == {i \in 1..Len(s) : s[i] \notin Whitespace}
    IN  IF solid = {} THEN <<>>
        ELSE SubSeq(s, CHOOSE i \in solid : \A j \in solid : i <= j,
                       CHOOSE i \in solid : \A j \in solid : j <= i)

\* local-part, '@', domain, '.', two or more letters: the shape of an address
ValidShape(s) ==
    \E at \in 2..Len(s), dot \in 4..(Len(s) - 2) :
        /\ at + 1 < dot
        /\ s[at] = "@"
        /\ s[dot] = "."
        /\ \A i \in 1..(at - 1) : s[i] \in LocalClass
        /\ \A i \in (at + 1)..(dot - 1) : s[i] \in DomainClass
        /\ \A i \in (dot + 1)..Len(s) : s[i] \in TldClass

\* the maximal non-empty stretches of s free of sep, as <<first, last>> positions
Stretches(s, sep) ==
    {p \in (1..Len(s)) \X (1..Len(s)) :
        /\ p[1] <= p[2]
        /\ \A k \in p[1]..p[2] : s[k] # sep
        /\ p[1] = 1 \/ s[p[1] - 1] = sep
        /\ p[2] = Len(s) \/ s[p[2] + 1] = sep}

\* the separators, in the order tried, that cut s into two or more stretches
TriedInOrder == <<".", "-", "_">>
Cutting(s) == {k \in 1..3 : Cardinality(Stretches(s, TriedInOrder[k])) >= 2}

\* the last stretch of s for the first separator that cuts it, s itself when none does
LastStretch(s) ==
    IF Cutting(s) = {} THEN s
    ELSE LET k == CHOOSE c \in Cutting(s) : \A d \in Cutting(s) : c <= d
             st == Stretches(s, TriedInOrder[k])
             last == CHOOSE p \in st : \A q \in st : q[1] <= p[1]
         IN  SubSeq(s, last[1], last[2])

\* the part of an address before its first '@'
BeforeAt(e) ==
    LET ats == {i \in 1..Len(e) : e[i] = "@"}
    IN  IF ats = {} THEN e ELSE SubSeq(e, 1, (CHOOSE i \in ats : \A j \in ats : i <= j) - 1)

\* t occurs in s as a run of adjacent characters
IsSubstring(t, s) == \E i \in 1..(Len(s) + 1) : \E j \in (i - 1)..Len(s) : SubSeq(s, i, j) = t

\* the lines read so far that are addresses once trimmed, by position
ValidRead == {i \in 1..pos : ValidShape(Trimmed(inputFile[i]))}

\* where the address e first stands in the input
FirstAt(e) ==
    CHOOSE i \in ValidRead :
        Trimmed(inputFile[i]) = e /\ \A j \in ValidRead : Trimmed(inputFile[j]) = e => i <= j

(***************************************************************************)
(* C1: iter_emails yields each valid-shaped address exactly once, however   *)
(* often it stands in the input, in the order of first occurrence; lines    *)
(* are compared trimmed and case-sensitively.                               *)
(***************************************************************************)
C1_UniqueInFirstSeenOrder ==
    /\ \A k, l \in 1..Len(emails) : k # l => emails[k] # emails[l]
    /\ {emails[k] : k \in 1..Len(emails)} = {Trimmed(inputFile[i]) : i \in ValidRead}
    /\ \A k, l \in 1..Len(emails) : k < l => FirstAt(emails[k]) < FirstAt(emails[l])

\* the whole file is read and three addresses were yielded; one of them stood in the
\* input twice, its repeat after the second address was first seen
C1_Witness ==
    /\ pc = "rows"
    /\ Len(emails) >= 3
    /\ \E i, j \in ValidRead : i < j /\ Trimmed(inputFile[i]) = Trimmed(inputFile[j])
                                     /\ FirstAt(emails[2]) < i

(***************************************************************************)
(* C2 as claimed: a raw line that holds a space or no '@' yields nothing,   *)
(* wherever it stands.                                                      *)
(***************************************************************************)
C2_RawLineRejected ==
    [][(pc = "read" /\ pos < Len(inputFile)
            /\ (Contains(inputFile[pos + 1], " ") \/ ~Contains(inputFile[pos + 1], "@")))
        => emails' = emails]_vars

(***************************************************************************)
(* C2 amended: a line that, once trimmed, holds a space or no '@' yields    *)
(* nothing, wherever it stands.                                             *)
(***************************************************************************)
C2_TrimmedLineRejected ==
    [][(pc = "read" /\ pos < Len(inputFile)
            /\ LET t == Trimmed(inputFile[pos + 1])
               IN  (\E i \in 1..Len(t) : t[i] = " ") \/ (\A i \in 1..Len(t) : t[i] # "@"))
        => emails' = emails]_vars

\* such a line has just been passed over, after an address was yielded
C2_Witness ==
    /\ pos >= 2
    /\ Len(emails) = 1
    /\ ValidShape(Trimmed(inputFile[1]))
    /\ LET t == Trimmed(inputFile[pos])
       IN  t # <<>> /\ ((\E i \in 1..Len(t) : t[i] = " ") \/ (\A i \in 1..Len(t) : t[i] # "@"))

C10_HintNonEmptySubstring ==
    \A i \in 1..Len(rows) :
        LET loc == BeforeAt(rows[i].email)
            hint == rows[i].surname_hint
        IN  /\ hint # <<>>
            /\ IsSubstring(hint, loc)
            /\ hint # loc =>
                  /\ Cutting(loc) # {}
                  /\ LET k == CHOOSE c \in Cutting(loc) : \A d \in Cutting(loc) : c <= d
                     IN  \A j \in 1..Len(hint) : hint[j] # TriedInOrder[k]

\* a local-part that ends with the separator it is cut on
C10_Witness ==
    /\ rows # <<>>
    /\ local[Len(local)] = "."
    /\ local[1] = "."
    /\ surname # local

(***************************************************************************)
(* C4: build_query returns site:linkedin.com/in "<surname>" (<kw1> OR ...   *)
(* OR <kwN>): the surname always in double quotes, the keywords in their    *)
(* order joined by ' OR ', a keyword in double quotes if and only if it     *)
(* holds a space.                                                           *)
(***************************************************************************)
\* a keyword as the query shows it
Shown(kw) == IF \E i \in 1..Len(kw) : kw[i] = " " THEN <<"\"">> \o kw \o <<"\"">> ELSE kw

\* the first n keywords as the query shows them, n >= 1
RECURSIVE ShownUpTo(_, _)
ShownUpTo(kws, n) ==
    IF n = 1 THEN Shown(kws[1])
    ELSE ShownUpTo(kws, n - 1) \o <<" ", "O", "R", " ">> \o Shown(kws[n])

C4_QueryFormat ==
    rows # <<>> =>
        /\ org_keywords # <<>>
        /\ query = <<"s","i","t","e",":","l","i","n","k","e","d","i","n",".","c","o","m","/","i","n"," ","\"">> \o surname \o <<"\"", " ", "(">>
                      \o ShownUpTo(org_keywords, Len(org_keywords)) \o <<")">>

\* a query built from a keyword with a space and, after it, one without
C4_Witness ==
    /\ rows # <<>>
    /\ Len(org_keywords) = 2
    /\ Contains(org_keywords[1], " ")
    /\ ~Contains(org_keywords[2], " ")

(***************************************************************************)
(* C9: the keyword list is the default three-element list when --org is    *)
(* absent or its entries, split on ';' and trimmed, are all empty;          *)
(* otherwise it is the trimmed non-empty entries in their order.  It is     *)
(* never empty when build_query is called.                                  *)
(***************************************************************************)
\* the entries of the override that are not blank, as <<first, last>> positions
KeptEntries(o) == {p \in Stretches(o, ";") : Trimmed(SubSeq(o, p[1], p[2])) # <<>>}

C9_KeywordList ==
    pc # "start" =>
        /\ org_keywords # <<>>
        /\ IF args.org = <<>> \/ KeptEntries(args.org[1]) = {}
           THEN org_keywords = DEFAULT_ORG_KEYWORDS /\ Len(org_keywords) = 3
           ELSE LET o == args.org[1]
                    kept == KeptEntries(o)
                IN  /\ Len(org_keywords) = Cardinality(kept)
                    /\ \A p \in kept :
                          org_keywords[Cardinality({q \in kept : q[1] <= p[1]})]
                              = Trimmed(SubSeq(o, p[1], p[2]))

\* an override with two entries, of which something was trimmed or dropped
C9_Witness ==
    /\ rows # <<>>
    /\ args.org # <<>>
    /\ Len(org_keywords) = 2
    /\ org_keywords[1] # org_keywords[2]
    /\ Len(args.org[1]) > Len(org_keywords[1]) + Len(org_keywords[2]) + 1

(***************************************************************************)
(* C5 as claimed: the CSV written has the header row                        *)
(* email,surname_hint,Google,Bing,Yandex first and as many data rows as     *)
(* there are accepted unique valid addresses, also when there are none.     *)
(***************************************************************************)
HeaderRow ==
    << <<"e","m","a","i","l">>,
       <<"s","u","r","n","a","m","e","_","h","i","n","t">>,
       <<"G","o","o","g","l","e">>,
       <<"B","i","n","g">>,
       <<"Y","a","n","d","e","x">> >>

\* how many different addresses the input holds
AcceptedCount == Cardinality({Trimmed(inputFile[i]) : i \in ValidRead})

C5_DataRowsEqualAccepted ==
    csvFile # <<>> =>
        /\ csvFile[1][1] = HeaderRow
        /\ Len(csvFile[1]) - 1 = AcceptedCount

(***************************************************************************)
(* C5 amended: the header row is first; with one or more accepted           *)
(* addresses there are as many data rows as addresses, and with none there  *)
(* is one data row of five empty fields.                                    *)
(***************************************************************************)
C5_DataRowsOrPlaceholder ==
    csvFile # <<>> =>
        /\ csvFile[1][1] = HeaderRow
        /\ IF AcceptedCount = 0
           THEN Len(csvFile[1]) = 2 /\ csvFile[1][2] = <<<<>>, <<>>, <<>>, <<>>, <<>>>>
           ELSE Len(csvFile[1]) - 1 = AcceptedCount

\* a CSV written for two addresses out of three or more lines
C5_Witness ==
    /\ csvFile # <<>>
    /\ Len(inputFile) >= 3
    /\ AcceptedCount = 2

(***************************************************************************)
(* C6: the rows main builds match the accepted addresses one to one and in  *)
(* order, each row's hint is that of its address's part before the first    *)
(* '@'; the input john.doe@corp.com, john.doe@corp.com, 'bad email@x',      *)
(* a_b@corp.com gives two rows, john.doe@corp.com then a_b@corp.com, with   *)
(* the hints doe and b.                                                     *)
(***************************************************************************)
ExampleInput == <<LineJohnDoe, LineJohnDoe, LineBadEmail, LineAB>>

C6_RowsMatchEmails ==
    pc \in {"xlsx", "summary", "done"} =>
        /\ Len(rows) = Len(emails)
        /\ \A i \in 1..Len(rows) :
              /\ rows[i].email = emails[i]
              /\ rows[i].surname_hint = LastStretch(BeforeAt(emails[i]))
        /\ inputFile = ExampleInput =>
              /\ [i \in 1..Len(rows) |-> rows[i].email]
                    = << <<"j","o","h","n",".","d","o","e","@","c","o","r","p",".","c","o","m">>,
                         <<"a","_","b","@","c","o","r","p",".","c","o","m">> >>
              /\ [i \in 1..Len(rows) |-> rows[i].surname_hint] = << <<"d","o","e">>, <<"b">> >>

\* the run on that input, at its end
C6_Witness == pc = "done" /\ inputFile = ExampleInput /\ Len(rows) = 2

(***************************************************************************)
(* C7: with a spreadsheet asked for and openpyxl missing the run does not   *)
(* abort: the CSV is complete before the attempt starts, the attempt leaves *)
(* it unchanged, one warning is printed, and the summary follows.           *)
(***************************************************************************)
Warnings == {i \in 1..Len(stdout) : stdout[i].kind = "xlsx_missing"}
Warned == Warnings # {}

\* the CSV holds the header and every row built
CsvComplete ==
    /\ csvFile # <<>>
    /\ csvFile[1][1] = HeaderRow
    /\ Len(csvFile[1]) = 1 + (IF rows = <<>> THEN 1 ELSE Len(rows))
    /\ \A i \in 1..Len(rows) :
          csvFile[1][i + 1] = <<rows[i].email, rows[i].surname_hint,
                                rows[i].Google, rows[i].Bing, rows[i].Yandex>>

SummaryPrinted ==
    /\ Len(stdout) >= 2
    /\ stdout[Len(stdout) - 1] = [kind |-> "count", path |-> "", n |-> Len(emails)]
    /\ stdout[Len(stdout)] = [kind |-> "csv", path |-> args.output, n |-> 0]

C7_MissingXlsxDoesNotAbort ==
    /\ [](pc = "xlsx" => CsvComplete)
    /\ [](pc = "xlsx" /\ XlsxRequested => ENABLED (Next /\ Warned'))
    /\ [](pc = "aborted" => raised \in {"open_input", "open_csv", "xlsx_save"})
    /\ [][(pc = "xlsx" /\ Warned') =>
            (csvFile' = csvFile /\ CsvComplete' /\ pc' = "summary" /\ Len(stdout') = 1)]_vars
    /\ [](Warned => /\ XlsxRequested
                    /\ Cardinality(Warnings) = 1
                    /\ CsvComplete
                    /\ xlsxFile = <<>>
                    /\ raised = "none"
                    /\ pc \in {"summary", "done"}
                    /\ pc = "summary" => ENABLED Next
                    /\ pc = "done" => SummaryPrinted /\ Len(stdout) = 3)
    /\ [][(Warned /\ pc = "summary") => (pc' = "done" /\ csvFile' = csvFile)]_vars

\* the warning printed for a run with rows, then its summary
C7_Witness == Warned /\ pc = "done" /\ Len(rows) >= 2

(***************************************************************************)
(* C8 as claimed: once the input file is read no failure of a later step    *)
(* stops the run before the summary.                                        *)
(***************************************************************************)
C8_NothingStopsTheRun == pc = "aborted" => raised = "open_input"

(***************************************************************************)
(* C8 amended: once the input file is read, every run ends, and it ends     *)
(* either with the summary (the xlsx path or the warning when a spreadsheet *)
(* was asked for, then the count and the CSV path) or with the exception of *)
(* a failed CSV write or spreadsheet save, which nothing catches and after  *)
(* which no summary is printed.                                             *)
(***************************************************************************)
\* what a run has left to do at most: it falls with every step
StepsLeft ==
    (CASE pc = "start" -> 7 [] pc = "open" -> 6 [] pc = "read" -> 5 [] pc = "rows" -> 4
       [] pc = "xlsx" -> 3 [] pc = "summary" -> 2 [] pc = "done" -> 1 [] pc = "aborted" -> 0)
        + (Len(inputFile) - pos) + (Len(inputFile) - Len(rows))

C8_SummaryUnlessWriteFails ==
    /\ [](pc = "done" =>
            /\ raised = "none"
            /\ SummaryPrinted
            /\ IF XlsxRequested
               THEN /\ Len(stdout) = 3
                    /\ \/ stdout[1] = [kind |-> "xlsx_missing", path |-> "", n |-> 0]
                       \/ stdout[1] = [kind |-> "xlsx", path |-> args.xlsx[1], n |-> 0]
               ELSE Len(stdout) = 2)
    /\ [](pc = "aborted" =>
            /\ raised \in {"open_input", "open_csv", "xlsx_save"}
            /\ \A i \in 1..Len(stdout) : stdout[i].kind \notin {"count", "csv"})
    /\ [](pc \in {"read", "rows", "xlsx", "summary"} => ENABLED Next)
    /\ [](StepsLeft >= 0)
    /\ [][StepsLeft' < StepsLeft]_vars

\* a run with a spreadsheet written, at its end
C8_Witness ==
    /\ pc = "done"
    /\ xlsxFile # <<>>
    /\ Len(rows) >= 2
    /\ Len(stdout) = 3
=============================================================================
